---- MODULE Spec2Model ----
(***************************************************************************)
(* Model of compare_frd_files.py: the .frd record parser, the per-pair     *)
(* difference statistics, and the batch driver that pairs AVAPS and ACS    *)
(* files by timestamp and accumulates a global summary.                    *)
(*                                                                         *)
(* Text is modelled as text: a token or a file name is a sequence of       *)
(* one-character strings, a line is the sequence of its whitespace-        *)
(* separated tokens, a file is a sequence of lines.                        *)
(*                                                                         *)
(* A number read from a file is the binary64 value that float() gives      *)
(* for its literal, held exactly as sign, mantissa and binary exponent.    *)
(* Subtraction, abs, the comparisons with 0.1 and with the thresholds,     *)
(* and round(x, 2) are computed on these values as IEEE 754 arithmetic     *)
(* and Python compute them, so that -998.9 is more than 0.1 away from      *)
(* -999.0, 20.1 - 19.9 is more than 0.2, and round(10.125, 2) is 10.12.    *)
(* The statistics of a list of differences are binary64 values too: the    *)
(* sums are formed in the order of numpy's pairwise summation and every     *)
(* sum, product, quotient and square root is rounded as IEEE 754 rounds    *)
(* it, so that a sum can overflow to an infinity.  The rendering of the     *)
(* numbers in the report is left out.                                      *)
(***************************************************************************)
EXTENDS Integers, Sequences, FiniteSets, TLC

VARIABLES
    \* parse_frd_file
    data, data_section_started, line, parse_pc, parsed,
    \* compare_data / format_output
    data1, data2, parameter, stats, output, diff_pc,
    \* main
    pc, directory, listed, avaps_files, acs_files, acs_timestamp_mapping,
    next_item, compared_pairs, global_diffs, file_count, outfile

parseVars == <<data, data_section_started, line, parse_pc, parsed>>
diffVars == <<data1, data2, parameter, stats, output, diff_pc>>
mainVars == <<pc, directory, listed, avaps_files, acs_files, acs_timestamp_mapping,
              next_item, compared_pairs, global_diffs, file_count, outfile>>
vars == <<parseVars, diffVars, mainVars>>

----------------------------------------------------------------------------
(* Characters, tokens and lines                                             *)

\* The alphabet is Latin-1.  Its decimal digits, which float(), int() and
\* \d take, are 0-9; str.isdigit() is also true of the superscript digits.
DigitChars == <<"0", "1", "2", "3", "4", "5", "6", "7", "8", "9">>

Digits == {DigitChars[i] : i \in 1..10}

Abs(x) == IF x < 0 THEN -x ELSE x

\* int(s) for a string of decimal digits
RECURSIVE DigitsToInt(_)
DigitsToInt(s) ==
    IF s = <<>> THEN 0
    ELSE DigitsToInt(SubSeq(s, 1, Len(s) - 1)) * 10
         + (CHOOSE i \in 1..10 : DigitChars[i] = s[Len(s)]) - 1

\* str.isdigit(): non-empty and every character a digit
IsDigit(tok) ==
    tok # <<>> /\ \A i \in 1..Len(tok) : tok[i] \in Digits \cup {"²", "³", "¹"}

\* the tokens of the lines that the model reads
Tok ==
    [ IX |-> <<"I", "X">>, word |-> <<"a", "b", "c">>,
      zero |-> <<"0">>, one |-> <<"1">>, two |-> <<"2">>,
      minus_one |-> <<"-", "1">>, squared |-> <<"²">>,
      sentinel |-> <<"-", "9", "9", "9", ".", "0">>,
      \* times: 5.0 and 5.005 round to the same key, as 10.12 and 10.125 do
      t5_0 |-> <<"5", ".", "0">>, t5_005 |-> <<"5", ".", "0", "0", "5">>,
      t5_256 |-> <<"5", ".", "2", "5", "6">>,
      t10_12 |-> <<"1", "0", ".", "1", "2">>, t10_125 |-> <<"1", "0", ".", "1", "2", "5">>,
      t10_25 |-> <<"1", "0", ".", "2", "5">>,
      \* readings
      p1000 |-> <<"1", "0", "0", "0", ".", "0">>, p1e3 |-> <<"1", "e", "3">>,
      p999 |-> <<"9", "9", "9", ".", "0">>, p999_5 |-> <<"9", "9", "9", ".", "5">>,
      p1003 |-> <<"1", "0", "0", "3", ".", "0">>, p1e308 |-> <<"1", "e", "3", "0", "8">>,
      near_sentinel |-> <<"-", "9", "9", "8", ".", "9">>,
      at_sentinel |-> <<"-", "9", "9", "9", ".", "0", "4">>,
      nan |-> <<"n", "a", "n">>, infinity |-> <<"I", "n", "f", "i", "n", "i", "t", "y">>,
      minus_inf |-> <<"-", "i", "n", "f">>,
      t20_1 |-> <<"2", "0", ".", "1">>, t19_9 |-> <<"1", "9", ".", "9">>,
      t20_3 |-> <<"2", "0", ".", "3">>,
      rh50 |-> <<"5", "0", ".", "0">>, rh48 |-> <<"4", "8", ".", "0">>,
      point5 |-> <<".", "5">>, not_available |-> <<"n", "/", "a">>,
      u1_5 |-> <<"1", ".", "5">>, u1_0 |-> <<"1", "_", "0">>, u0_1 |-> <<"0", ".", "1">>,
      u0_3 |-> <<"0", ".", "3">>, u0_20045 |-> <<"0", ".", "2", "0", "0", "4", "5">>,
      v2_25 |-> <<"-", "2", ".", "2", "5">>, v2_0 |-> <<"-", "2", ".", "0">>,
      tenth |-> <<"+", "1", "E", "-", "1">>, what |-> <<"?">> ]

\* IX t P T RH Z WD WS U V
Row(ix, t, p, tt, rh, u, v) == <<ix, t, p, tt, rh, Tok.zero, Tok.zero, Tok.zero, u, v>>

HeaderLine == <<Tok.IX, <<"t">>, <<"P">>, <<"T">>, <<"R", "H">>>>

(* Lines handed to the parser one at a time *)

DataRows ==
    { Row(Tok.one, Tok.t5_0, p, tt, Tok.rh50, Tok.u1_5, Tok.v2_25) :
        p \in {Tok.p1e3, Tok.sentinel, Tok.near_sentinel, Tok.nan, Tok.word},
        tt \in {Tok.t20_1, Tok.at_sentinel, <<"x">>} }
    \cup { Row(Tok.one, Tok.t5_0, Tok.p1e3, Tok.t20_1, Tok.rh50, Tok.u1_5, Tok.what) }
    \cup { Row(Tok.one, Tok.t5_005, p, Tok.t20_1, Tok.rh50, Tok.u1_5, Tok.v2_25) :
              p \in {Tok.p999_5, Tok.sentinel} }
    \cup { Row(Tok.one, Tok.t5_256, p, Tok.t20_1, Tok.not_available, Tok.one, Tok.one) :
              p \in {Tok.p1e3, Tok.sentinel} }
    \cup { Row(Tok.squared, Tok.t5_256, Tok.infinity, Tok.minus_inf, Tok.point5,
               Tok.u1_0, Tok.tenth) }

OtherLines ==
    { HeaderLine,
      <<>>,
      <<Tok.word, Tok.word>>,
      \* nine tokens only
      <<Tok.one, Tok.t5_0, Tok.one, Tok.one, Tok.one, Tok.one, Tok.one, Tok.one, Tok.one>>,
      \* the index is no digit string
      Row(Tok.minus_one, Tok.t5_0, Tok.one, Tok.one, Tok.one, Tok.one, Tok.one),
      \* the time does not parse
      Row(Tok.one, Tok.word, Tok.one, Tok.one, Tok.one, Tok.one, Tok.one),
      \* eleven tokens
      Row(Tok.one, Tok.t5_0, Tok.one, Tok.one, Tok.one, Tok.one, Tok.one) \o <<Tok.one>> }

(* The texts of the files of the directory *)

TextA ==
    << <<Tok.word, Tok.word>>, HeaderLine,
       Row(Tok.one, Tok.t10_12, Tok.p1000, Tok.t20_1, Tok.rh50, Tok.u1_5, Tok.v2_25),
       Row(Tok.two, Tok.t10_25, Tok.p999, Tok.t20_1, Tok.rh50, Tok.u1_5, Tok.v2_25) >>

\* The U winds of TextA2, TextB and TextB3 give the differences 0.1 and 0.3
\* in one pair and 0.1 - 0.20045 in another: in binary64 the mean of the
\* three is 0.09985000000000001 with the first pair first and 0.09985 with
\* the second pair first.
TextA2 ==
    << HeaderLine,
       Row(Tok.one, Tok.t10_12, Tok.p1003, Tok.sentinel, Tok.rh50, Tok.u0_1, Tok.v2_0),
       Row(Tok.two, Tok.t10_25, Tok.p1000, Tok.sentinel, Tok.rh50, Tok.u0_3, Tok.v2_0) >>

TextB ==
    << HeaderLine,
       Row(Tok.one, Tok.t10_125, Tok.p999_5, Tok.t19_9, Tok.rh48, Tok.zero, Tok.v2_0),
       Row(Tok.two, Tok.t10_25, Tok.p1e3, Tok.t20_1, Tok.rh48, Tok.zero, Tok.word) >>

TextB3 ==
    << HeaderLine,
       Row(Tok.one, Tok.t10_12, Tok.p1000, Tok.t20_3, Tok.rh48, Tok.u0_20045, Tok.v2_25) >>

\* no header line: nothing is in the data section
TextNoHeader ==
    << Row(Tok.one, Tok.t10_12, Tok.p1000, Tok.t20_1, Tok.rh50, Tok.u1_5, Tok.v2_25) >>

\* the tokens whose values the model computes once: those of the lines and
\* texts above
Literals == {Tok[f] : f \in DOMAIN Tok}

----------------------------------------------------------------------------
(* Natural numbers of any size                                              *)

\* A natural number is the sequence of its limbs to the base 2^15, least
\* significant first and without leading zero limbs; <<>> is 0.  The
\* operations are functions, so that an argument is a value when the body
\* uses it.
Base == 2^15

Limb(a, i) == IF i <= Len(a) THEN a[i] ELSE 0

\* without leading zero limbs
BigNorm[a \in Seq(Nat)] ==
    LET N == {i \in 1..Len(a) : a[i] # 0}
    IN  IF N = {} THEN <<>>
        ELSE SubSeq(a, 1, CHOOSE i \in N : \A j \in N : j <= i)

BigFromNat[n \in Nat] ==
    BigNorm[<<n % Base, (n \div Base) % Base, n \div (Base * Base)>>]

\* a + b from the limb i on, with the carry into it and the limbs below it
BigAddFrom[a \in Seq(Nat), b \in Seq(Nat), i \in Nat, carry \in Nat, low \in Seq(Nat)] ==
    IF i > Len(a) /\ i > Len(b) THEN (IF carry = 0 THEN low ELSE Append(low, carry))
    ELSE BigAddFrom[a, b, i + 1, (Limb(a, i) + Limb(b, i) + carry) \div Base,
                    Append(low, (Limb(a, i) + Limb(b, i) + carry) % Base)]

BigAdd[a \in Seq(Nat), b \in Seq(Nat)] == BigAddFrom[a, b, 1, 0, <<>>]

BigSubFrom[a \in Seq(Nat), b \in Seq(Nat), i \in Nat, borrow \in Nat, low \in Seq(Nat)] ==
    IF i > Len(a) THEN low
    ELSE BigSubFrom[a, b, i + 1, IF a[i] < Limb(b, i) + borrow THEN 1 ELSE 0,
                    Append(low, (a[i] - Limb(b, i) - borrow + Base) % Base)]

\* a - b for a >= b
BigSub[a \in Seq(Nat), b \in Seq(Nat)] == BigNorm[BigSubFrom[a, b, 1, 0, <<>>]]

\* -1, 0, 1 as a < b, a = b, a > b
BigCmp[a \in Seq(Nat), b \in Seq(Nat)] ==
    IF Len(a) # Len(b) THEN (IF Len(a) < Len(b) THEN -1 ELSE 1)
    ELSE LET D == {i \in 1..Len(a) : a[i] # b[i]}
         IN  IF D = {} THEN 0
             ELSE LET t == CHOOSE i \in D : \A j \in D : j <= i
                  IN  IF a[t] < b[t] THEN -1 ELSE 1

BigMulSmallFrom[a \in Seq(Nat), k \in Nat, i \in Nat, carry \in Nat, low \in Seq(Nat)] ==
    IF i > Len(a) THEN (IF carry = 0 THEN low ELSE Append(low, carry))
    ELSE BigMulSmallFrom[a, k, i + 1, (a[i] * k + carry) \div Base,
                         Append(low, (a[i] * k + carry) % Base)]

\* a * k for 0 <= k <= Base
BigMulSmall[a \in Seq(Nat), k \in Nat] ==
    IF k = 0 THEN <<>> ELSE BigMulSmallFrom[a, k, 1, 0, <<>>]

\* a by k from the limb i down, with the remainder so far and the limbs of
\* the quotient above it
BigDivSmallFrom[a \in Seq(Nat), k \in Nat, i \in Nat, rem \in Nat, high \in Seq(Nat)] ==
    IF i = 0 THEN [q |-> BigNorm[high], r |-> rem]
    ELSE BigDivSmallFrom[a, k, i - 1, (rem * Base + a[i]) % k,
                         <<(rem * Base + a[i]) \div k>> \o high]

\* quotient and remainder of a by k, 0 < k <= Base
BigDivSmall[a \in Seq(Nat), k \in Nat] == BigDivSmallFrom[a, k, Len(a), 0, <<>>]

\* a * 2^n
BigShl[a \in Seq(Nat), n \in Nat] ==
    IF a = <<>> THEN <<>>
    ELSE [i \in 1..(n \div 15) |-> 0] \o BigMulSmall[a, 2^(n % 15)]

\* floor(a / 2^n)
BigShr[a \in Seq(Nat), n \in Nat] ==
    IF n \div 15 >= Len(a) THEN <<>>
    ELSE BigDivSmall[SubSeq(a, n \div 15 + 1, Len(a)), 2^(n % 15)].q

\* a mod 2^n
BigLow[a \in Seq(Nat), n \in Nat] ==
    IF n \div 15 >= Len(a) THEN a
    ELSE BigNorm[SubSeq(a, 1, n \div 15) \o <<a[n \div 15 + 1] % 2^(n % 15)>>]

BitLen[x \in Nat] == IF x = 0 THEN 0 ELSE 1 + BitLen[x \div 2]

BigBitLen[a \in Seq(Nat)] ==
    IF a = <<>> THEN 0 ELSE 15 * (Len(a) - 1) + BitLen[a[Len(a)]]

TrailingZeros[x \in Nat] == IF x % 2 = 1 THEN 0 ELSE 1 + TrailingZeros[x \div 2]

\* the number of trailing zero bits of a > 0
BigTrailingZeros[a \in Seq(Nat)] ==
    LET i == CHOOSE j \in 1..Len(a) : a[j] # 0 /\ \A h \in 1..(j - 1) : a[h] = 0
    IN  15 * (i - 1) + TrailingZeros[a[i]]

\* a * b from the limb i of b on, added to sum
BigMulFrom[a \in Seq(Nat), b \in Seq(Nat), i \in Nat, sum \in Seq(Nat)] ==
    IF i > Len(b) THEN BigNorm[sum]
    ELSE BigMulFrom[a, b, i + 1,
                    BigAdd[sum, [j \in 1..(i - 1) |-> 0] \o BigMulSmall[a, b[i]]]]

\* a * 10^k
BigMulPow10[a \in Seq(Nat), k \in Nat] ==
    IF k <= 4 THEN BigMulSmall[a, 10^k]
    ELSE BigMulPow10[BigMulPow10[a, k \div 2], k - k \div 2]

\* floor(a / 5^k), and whether a division on the way left a remainder
BigDivPow5[a \in Seq(Nat), k \in Nat, inexact \in BOOLEAN] ==
    IF k = 0 THEN [q |-> a, inexact |-> inexact]
    ELSE LET d == BigDivSmall[a, 5^(IF k >= 6 THEN 6 ELSE k)]
         IN  BigDivPow5[d.q, IF k >= 6 THEN k - 6 ELSE 0, inexact \/ d.r # 0]

----------------------------------------------------------------------------
(* Floating-point numbers                                                   *)

\* A float is the binary64 value the program holds.  A finite one is
\* s * m * 2^e with s the sign, m an odd natural (or 0, with e = 0 and
\* s = 1: the sign of a zero is not kept); the others are Inf(s) and NaN.
NaN == [nan |-> TRUE]

Inf(s) == [inf |-> s]

Zero == [s |-> 1, m |-> <<>>, e |-> 0]

IsFinite(x) == "m" \in DOMAIN x

IsNaN(x) == "nan" \in DOMAIN x

Finite == [s : {-1, 1}, m : Seq(Nat), e : Int]

Float == Finite \cup {NaN, Inf(1), Inf(-1)}

\* s * m * 2^e with the trailing zero bits of m moved into the exponent
Dy[s \in {-1, 1}, m \in Seq(Nat), e \in Int] ==
    IF m = <<>> THEN Zero
    ELSE [s |-> s, m |-> BigShr[m, BigTrailingZeros[m]], e |-> e + BigTrailingZeros[m]]

DyFromInt[n \in Int] ==
    Dy[IF n < 0 THEN -1 ELSE 1, BigFromNat[IF n < 0 THEN -n ELSE n], 0]

\* sa * A + sb * B, times 2^e
DyAddAligned[sa \in {-1, 1}, A \in Seq(Nat), sb \in {-1, 1}, B \in Seq(Nat), e \in Int] ==
    IF sa = sb THEN Dy[sa, BigAdd[A, B], e]
    ELSE Dy[IF BigCmp[A, B] >= 0 THEN sa ELSE sb,
            IF BigCmp[A, B] >= 0 THEN BigSub[A, B] ELSE BigSub[B, A], e]

\* the exact sum of two finite numbers
DyAdd[a \in Finite, b \in Finite] ==
    LET e == IF a.e < b.e THEN a.e ELSE b.e
    IN  DyAddAligned[a.s, BigShl[a.m, a.e - e], b.s, BigShl[b.m, b.e - e], e]

\* the exact product of two finite numbers
DyMul[a \in Finite, b \in Finite] == Dy[a.s * b.s, BigMulFrom[a.m, b.m, 1, <<>>], a.e + b.e]

\* -1, 0, 1 as d < 0, d = 0, d > 0
DySign[d \in Finite] == IF d.m = <<>> THEN 0 ELSE d.s

\* the exponent of the leading bit of d, plus one
TopBit(d) == d.e + BigBitLen[d.m]

\* -1, 0, 1 as a < b, a = b, a > b: by the signs, then by the leading bits,
\* then by the difference
DyCmp[a \in Finite, b \in Finite] ==
    IF DySign[a] # DySign[b] THEN (IF DySign[a] < DySign[b] THEN -1 ELSE 1)
    ELSE IF DySign[a] = 0 THEN 0
    ELSE IF TopBit(a) # TopBit(b) THEN (IF TopBit(a) > TopBit(b) THEN a.s ELSE -a.s)
    ELSE DySign[DyAdd[a, [b EXCEPT !.s = -b.s]]]

\* s * q * 2^e, q cut off after the bits kept, c comparing what was cut off
\* with half a unit of q: to the nearest, ties to the even q; infinite from
\* 2^1024 on
RoundCut[s \in {-1, 1}, q \in Seq(Nat), e \in Int, c \in {-1, 0, 1}, above \in BOOLEAN] ==
    LET r == IF c > 0 \/ (c = 0 /\ (above \/ Limb(q, 1) % 2 = 1))
             THEN BigAdd[q, <<1>>] ELSE q
    IN  IF BigBitLen[r] + e > 1024 THEN Inf(s) ELSE Dy[s, r, e]

\* The binary64 nearest to the finite x: 53 bits of mantissa and no bit
\* below 2^-1074.  "above" says that the number to round is a little more
\* than x, by less than a unit of a mantissa of 66 bits or more.
RoundDbl[x \in Finite, above \in BOOLEAN] ==
    LET len == BigBitLen[x.m]
        drop == IF len - 53 > -1074 - x.e THEN len - 53 ELSE -1074 - x.e
    IN  IF x.m = <<>> THEN Zero
        ELSE IF drop <= 0 THEN (IF len + x.e > 1024 THEN Inf(x.s) ELSE x)
        ELSE RoundCut[x.s, BigShr[x.m, drop], x.e + drop,
                      BigCmp[BigLow[x.m, drop], BigShl[<<1>>, drop - 1]], above]

\* the binary64 nearest to s * n * 10^exp10 for a natural n; what is
\* certainly beyond the range is not computed: 10^401 or more is infinite,
\* less than 10^-330 is zero
DblFromDecimal[s \in {-1, 1}, n \in Seq(Nat), exp10 \in Int] ==
    IF n = <<>> THEN Zero
    ELSE IF exp10 > 400 THEN Inf(s)
    ELSE IF BigBitLen[n] \div 3 + 1 + exp10 < -330 THEN Zero
    ELSE IF exp10 >= 0 THEN RoundDbl[Dy[s, BigMulPow10[n, exp10], 0], FALSE]
    ELSE LET k == -exp10
             t == IF 66 + 3 * k > BigBitLen[n] THEN 66 + 3 * k - BigBitLen[n] ELSE 0
             d == BigDivPow5[BigShl[n, t], k, FALSE]
         IN  RoundDbl[Dy[s, d.q, -t - k], d.inexact]

\* abs(x)
DblAbs[x \in Float] ==
    IF IsNaN(x) THEN NaN
    ELSE IF IsFinite(x) THEN [x EXCEPT !.s = 1]
    ELSE Inf(1)

\* x + y.  Of two finite numbers, one whose leading bit is 64 places or
\* more below that of the other is less than half the distance from the
\* other to its neighbours, and the sum is the other.
DblAdd[x \in Float, y \in Float] ==
    IF IsNaN(x) \/ IsNaN(y) THEN NaN
    ELSE IF IsFinite(x) /\ IsFinite(y)
    THEN IF x = Zero THEN y
         ELSE IF y = Zero THEN x
         ELSE IF TopBit(x) - TopBit(y) >= 64 THEN x
         ELSE IF TopBit(y) - TopBit(x) >= 64 THEN y
         ELSE RoundDbl[DyAdd[x, y], FALSE]
    ELSE IF IsFinite(x) THEN y
    ELSE IF IsFinite(y) THEN x
    ELSE IF x.inf = y.inf THEN x
    ELSE NaN

\* x - y: x + (-y)
DblSub[x \in Float, y \in Float] ==
    DblAdd[x, IF IsNaN(y) THEN NaN
              ELSE IF ~IsFinite(y) THEN Inf(-y.inf)
              ELSE IF y = Zero THEN Zero
              ELSE [y EXCEPT !.s = -y.s]]

\* -1, 0, 1 as x < y, x = y, x > y, for numbers that are not NaN
DblCmp[x \in Float, y \in Float] ==
    IF IsFinite(x) /\ IsFinite(y) THEN DyCmp[x, y]
    ELSE IF IsFinite(x) THEN -y.inf
    ELSE IF IsFinite(y) THEN x.inf
    ELSE IF x.inf = y.inf THEN 0
    ELSE x.inf

\* x > y and x <= y: false when either is NaN
DblGt(x, y) == ~IsNaN(x) /\ ~IsNaN(y) /\ DblCmp[x, y] > 0

DblLe(x, y) == ~IsNaN(x) /\ ~IsNaN(y) /\ DblCmp[x, y] <= 0


\* -1 or 1, the sign of a number that is neither NaN nor zero
SignBit(x) == IF IsFinite(x) THEN x.s ELSE x.inf

\* x * y
DblMul[x \in Float, y \in Float] ==
    IF IsNaN(x) \/ IsNaN(y) THEN NaN
    ELSE IF IsFinite(x) /\ IsFinite(y) THEN RoundDbl[DyMul[x, y], FALSE]
    ELSE IF x = Zero \/ y = Zero THEN NaN
    ELSE Inf(SignBit(x) * SignBit(y))

\* x / n for an integer n, 0 <= n <= Base: numpy's true_divide by a count.
\* The mantissa is given 81 bits and divided; what the division leaves
\* decides the rounding.
DblDivInt[x \in Float, n \in Nat] ==
    IF IsNaN(x) THEN NaN
    ELSE IF n = 0 THEN (IF x = Zero THEN NaN ELSE Inf(SignBit(x)))
    ELSE IF ~IsFinite(x) \/ x = Zero THEN x
    ELSE LET t == 81 - BigBitLen[x.m]
             d == BigDivSmall[BigShl[x.m, t], n]
         IN  RoundDbl[Dy[x.s, d.q, x.e - t], d.r # 0]

\* floor(sqrt(n)) for n < 2^30
ISqrt[n \in Nat] ==
    IF n < 2 THEN n
    ELSE LET r == 2 * ISqrt[n \div 4]
         IN  IF (r + 1) * (r + 1) <= n THEN r + 1 ELSE r

\* the largest digit d <= guess with (twice * Base + d) * d <= rem, and
\* what it leaves of rem; twice is two times the root so far
SqrtDigit[twice \in Seq(Nat), rem \in Seq(Nat), guess \in Nat] ==
    IF guess = 0 THEN [d |-> 0, rem |-> rem]
    ELSE IF BigCmp[BigMulSmall[<<guess>> \o twice, guess], rem] > 0
         THEN SqrtDigit[twice, rem, guess - 1]
         ELSE [d |-> guess, rem |-> BigSub[rem, BigMulSmall[<<guess>> \o twice, guess]]]

\* rem / (2 * top * Base^len) cut down to a digit: never less than the digit
\* of the root that follows a root of len limbs with the leading limb top
SqrtGuess[rem \in Seq(Nat), len \in Nat, top \in Nat] ==
    IF Len(rem) <= len THEN 0
    ELSE LET q == BigDivSmall[BigDivSmall[SubSeq(rem, len + 1, Len(rem)), top].q, 2].q
         IN  IF Len(q) > 1 THEN Base - 1 ELSE Limb(q, 1)

\* Square root digit by digit to the base 2^15: a has an even number of
\* limbs and its leading pair is 2^28 or more; j pairs of limbs are still to
\* bring down, root is the root of the pairs above and rem what they leave.
\* The result is floor(sqrt(a)) and a - floor(sqrt(a))^2.
BigSqrtFrom[a \in Seq(Nat), j \in Nat, root \in Seq(Nat), rem \in Seq(Nat)] ==
    IF j = 0 THEN [root |-> root, rem |-> rem]
    ELSE IF root = <<>>
    THEN LET top == a[2 * j] * Base + a[2 * j - 1]
             d == ISqrt[top]
         IN  BigSqrtFrom[a, j - 1, <<d>>, BigFromNat[top - d * d]]
    ELSE LET left == BigNorm[<<a[2 * j - 1], a[2 * j]>> \o rem]
             step == SqrtDigit[BigMulSmall[root, 2], left,
                               SqrtGuess[left, Len(root), root[Len(root)]]]
         IN  BigSqrtFrom[a, j - 1, <<step.d>> \o root, step.rem]

\* sqrt(x): the mantissa is shifted by t to 119 or 120 bits with x.e - t
\* even, and the root of that rounded, what the root leaves deciding
DblSqrt[x \in Float] ==
    IF IsNaN(x) THEN NaN
    ELSE IF ~IsFinite(x) THEN (IF x.inf = 1 THEN x ELSE NaN)
    ELSE IF x = Zero THEN Zero
    ELSE IF x.s = -1 THEN NaN
    ELSE LET len == BigBitLen[x.m]
             t == IF (x.e - (120 - len)) % 2 = 0 THEN 120 - len ELSE 119 - len
             r == BigSqrtFrom[BigShl[x.m, t], 4, <<>>, <<>>]
         IN  RoundDbl[Dy[1, r.root, (x.e - t) \div 2], r.rem # <<>>]
----------------------------------------------------------------------------
(* float() and round()                                                      *)

\* the literal without its sign
Unsigned(tok) == IF tok # <<>> /\ tok[1] \in {"-", "+"} THEN Tail(tok) ELSE tok

SignOf(tok) == IF tok # <<>> /\ tok[1] = "-" THEN -1 ELSE 1

\* the place of the first of the characters cs in s, Len(s) + 1 if none
FirstOf(s, cs) ==
    IF \E i \in 1..Len(s) : s[i] \in cs
    THEN CHOOSE i \in 1..Len(s) : s[i] \in cs /\ \A j \in 1..(i - 1) : s[j] \notin cs
    ELSE Len(s) + 1

\* the parts of [whole][.frac][(e|E)[sign]exponent]
MantissaOf(body) == SubSeq(body, 1, FirstOf(body, {"e", "E"}) - 1)

ExponentOf(body) == SubSeq(body, FirstOf(body, {"e", "E"}) + 1, Len(body))

WholeOf(body) == SubSeq(MantissaOf(body), 1, FirstOf(MantissaOf(body), {"."}) - 1)

FracOf(body) ==
    SubSeq(MantissaOf(body), FirstOf(MantissaOf(body), {"."}) + 1, Len(MantissaOf(body)))

\* digits, with single underscores between digits
DigitPart(s) ==
    /\ s # <<>>
    /\ \A i \in 1..Len(s) : s[i] \in Digits \cup {"_"}
    /\ s[1] \in Digits /\ s[Len(s)] \in Digits
    /\ \A i \in 1..(Len(s) - 1) : ~(s[i] = "_" /\ s[i + 1] = "_")

\* s is the name in any mix of upper and lower case
IsName(s, name) ==
    LET UpperOf == [a |-> "A", f |-> "F", i |-> "I", n |-> "N", t |-> "T", y |-> "Y"]
    IN  Len(s) = Len(name) /\ \A i \in 1..Len(s) : s[i] \in {name[i], UpperOf[name[i]]}

IsInfName(s) == IsName(s, <<"i", "n", "f">>) \/ IsName(s, <<"i", "n", "f", "i", "n", "i", "t", "y">>)

\* float(tok) succeeds: [sign] followed by inf, infinity or nan in any
\* case, or by a decimal number with an optional exponent
FloatOk(tok) ==
    LET body == Unsigned(tok)
    IN  \/ IsInfName(body) \/ IsName(body, <<"n", "a", "n">>)
        \/ /\ WholeOf(body) = <<>> \/ DigitPart(WholeOf(body))
           /\ FracOf(body) = <<>> \/ DigitPart(FracOf(body))
           /\ WholeOf(body) # <<>> \/ FracOf(body) # <<>>
           /\ FirstOf(body, {"e", "E"}) <= Len(body)
                 => DigitPart(Unsigned(ExponentOf(body)))

NoUnderscores(s) == SelectSeq(s, LAMBDA c : c # "_")

NoLeadingZeros(s) == SubSeq(s, FirstOf(s, Digits \ {"0"}), Len(s))

\* the natural number written by a string of decimal digits
BigFromDigits[s \in Seq(Digits)] ==
    IF Len(s) <= 4 THEN BigFromNat[DigitsToInt(s)]
    ELSE BigAdd[BigMulPow10[BigFromDigits[SubSeq(s, 1, Len(s) \div 2)],
                            Len(s) - Len(s) \div 2],
                BigFromDigits[SubSeq(s, Len(s) \div 2 + 1, Len(s))]]

\* the exponent of a literal; one of more than six digits is as good as 10^6
ExponentVal(body) ==
    LET ex == ExponentOf(body)
        ds == NoLeadingZeros(NoUnderscores(Unsigned(ex)))
    IN  SignOf(ex) * (IF Len(ds) > 6 THEN 10^6 ELSE DigitsToInt(ds))

\* float(tok), computed from the characters of a literal that float() accepts
FloatOf(tok) ==
    LET body == Unsigned(tok)
        frac == NoUnderscores(FracOf(body))
        ds == NoLeadingZeros(NoUnderscores(WholeOf(body)) \o frac)
    IN  IF IsName(body, <<"n", "a", "n">>) THEN NaN
        ELSE IF IsInfName(body) THEN Inf(SignOf(tok))
        ELSE DblFromDecimal[SignOf(tok), BigFromDigits[ds],
                            ExponentVal(body) - Len(frac)]

\* T[x] where the table T holds x, else v
Cached(T, x, v) == IF x \in DOMAIN T THEN T[x] ELSE v

Range(f) == {f[a] : a \in DOMAIN f}

\* float() of the literals, computed once
LiteralValue == [tok \in {l \in Literals : FloatOk(l)} |-> FloatOf(tok)]

\* float(tok) for a literal that float() accepts
FloatVal(tok) == Cached(LiteralValue, tok, FloatOf(tok))

\* the exact value of the finite y rounded to an integer, ties to the even
RoundHalfEven[y \in Finite] ==
    IF y.e >= 0 THEN BigShl[y.m, y.e]
    ELSE LET q == BigShr[y.m, -y.e]
             c == BigCmp[BigLow[y.m, -y.e], BigShl[<<1>>, -y.e - 1]]
         IN  IF c > 0 \/ (c = 0 /\ Limb(q, 1) % 2 = 1) THEN BigAdd[q, <<1>>] ELSE q

\* round(x, 2) computed: the exact value of x rounded to hundredths, ties
\* to the even hundredth, and then the binary64 nearest to that decimal
RoundOf(x) ==
    IF ~IsFinite(x) THEN x
    ELSE DblFromDecimal[x.s, RoundHalfEven[DyMul[x, DyFromInt[100]]], -2]

\* round(x, 2) of the values of the literals, computed once
LiteralRound == [x \in Range(LiteralValue) |-> RoundOf(x)]

\* round(x, 2)
Round2(x) == Cached(LiteralRound, x, RoundOf(x))

----------------------------------------------------------------------------
(* Module constants                                                         *)

\* dict order of THRESHOLDS and of COLUMNS_TO_EXTRACT
ParamOrder == <<"P", "T", "RH", "U", "V">>

Params == {ParamOrder[i] : i \in 1..Len(ParamOrder)}

\* 1.0, 0.2, 5.0, 1.0, 1.0
THRESHOLDS ==
    [ P |-> DyFromInt[1], T |-> FloatOf(<<"0", ".", "2">>), RH |-> DyFromInt[5],
      U |-> DyFromInt[1], V |-> DyFromInt[1] ]

COLUMNS_TO_EXTRACT == [P |-> 2, T |-> 3, RH |-> 4, U |-> 8, V |-> 9]

\* -999.0
INVALID_DATA_VALUE == DyFromInt[-999]

\* the 0.1 of "abs(value - INVALID_DATA_VALUE) > 0.1"
Tolerance == FloatOf(<<"0", ".", "1">>)

EmptyDict == [k \in {} |-> 0]

----------------------------------------------------------------------------
(* parse_frd_file                                                           *)

\* The key of d that data[key] reaches.  A NaN equals no key, and round()
\* returns a new object each time, so a NaN key is a new entry each time.
KeyIn(d, key) ==
    IF IsNaN(key)
    THEN [nan |-> TRUE, id |-> Cardinality({k \in DOMAIN d : IsNaN(k)}) + 1]
    ELSE key

\* data[key][label] = value on a defaultdict(dict)
DictPut(d, key, label, value) ==
    LET at == KeyIn(d, key)
        old == IF at \in DOMAIN d THEN d[at] ELSE EmptyDict
        new == [l \in DOMAIN old \cup {label} |-> IF l = label THEN value ELSE old[l]]
    IN  [k \in DOMAIN d \cup {at} |-> IF k = at THEN new ELSE d[k]]

\* abs(value - INVALID_DATA_VALUE) > 0.1
IsValidValue(value) == DblGt(DblAbs[DblSub[value, INVALID_DATA_VALUE]], Tolerance)

\* "if abs(value - INVALID_DATA_VALUE) > 0.1: data[round(time_s, 2)][label] = value"
StoreValue(d, time_s, label, value) ==
    IF IsValidValue(value) THEN DictPut(d, Round2(time_s), label, value) ELSE d

\* the loop over COLUMNS_TO_EXTRACT from its i-th label on; a column that
\* float() rejects raises ValueError, which leaves the loop
RECURSIVE ExtractColumns(_, _, _, _)
ExtractColumns(d, time_s, parts, i) ==
    IF i > Len(ParamOrder) THEN d
    ELSE IF ~FloatOk(parts[COLUMNS_TO_EXTRACT[ParamOrder[i]] + 1]) THEN d
    ELSE ExtractColumns(
             StoreValue(d, time_s, ParamOrder[i],
                        FloatVal(parts[COLUMNS_TO_EXTRACT[ParamOrder[i]] + 1])),
             time_s, parts, i + 1)

\* line.startswith('IX'): the stripped line begins with its first token
StartsWithIX(parts) ==
    parts # <<>> /\ Len(parts[1]) >= 2 /\ parts[1][1] = "I" /\ parts[1][2] = "X"

\* one iteration of the loop over the file's lines
ParseLine(st, parts) ==
    IF StartsWithIX(parts) THEN [st EXCEPT !.started = TRUE]
    ELSE IF ~st.started THEN st
    ELSE IF Len(parts) > 9 /\ IsDigit(parts[1])
         THEN IF ~FloatOk(parts[2]) THEN st
              ELSE [st EXCEPT !.data = ExtractColumns(st.data, FloatVal(parts[2]), parts, 1)]
         ELSE st

RECURSIVE ParseLines(_, _)
ParseLines(st, lines) ==
    IF lines = <<>> THEN st
    ELSE ParseLines(ParseLine(st, Head(lines)), Tail(lines))

\* parse_frd_file on a file [readable, lines]: opening or reading a file that
\* raises gives the empty dict
parse_frd_file(file) ==
    IF ~file.readable THEN EmptyDict
    ELSE ParseLines([data |-> EmptyDict, started |-> FALSE], file.lines).data

----------------------------------------------------------------------------
(* parse_frd_file as a process: one line per step                           *)

DiffIdle ==
    /\ data1 = EmptyDict /\ data2 = EmptyDict /\ parameter = "P"
    /\ stats = EmptyDict /\ output = EmptyDict /\ diff_pc = "idle"

MainIdle ==
    /\ pc = "idle" /\ directory = {} /\ listed = {}
    /\ avaps_files = <<>> /\ acs_files = <<>> /\ acs_timestamp_mapping = <<>>
    /\ next_item = 1 /\ compared_pairs = {} /\ global_diffs = EmptyDict
    /\ file_count = 0 /\ outfile = <<>>

ParseInit ==
    /\ data = EmptyDict /\ data_section_started = FALSE /\ line = <<>>
    /\ parse_pc = "open" /\ parsed = EmptyDict

ParseIdle ==
    /\ data = EmptyDict /\ data_section_started = FALSE /\ line = <<>>
    /\ parse_pc = "idle" /\ parsed = EmptyDict

InitParse == ParseInit /\ DiffIdle /\ MainIdle

\* open(file_path, 'r') succeeds
OpenFile ==
    /\ parse_pc = "open"
    /\ parse_pc' = "reading"
    /\ UNCHANGED <<data, data_section_started, line, parsed, diffVars, mainVars>>

\* open raises FileNotFoundError (or another exception): return {}
OpenFails ==
    /\ parse_pc = "open"
    /\ parse_pc' = "returned"
    /\ parsed' = EmptyDict
    /\ UNCHANGED <<data, data_section_started, line, diffVars, mainVars>>

\* one iteration of "for line in f"
ReadLine ==
    /\ parse_pc = "reading"
    /\ \E parts \in DataRows \cup OtherLines :
          LET st == ParseLine([data |-> data, started |-> data_section_started], parts)
          IN  /\ line' = parts
              /\ data' = st.data
              /\ data_section_started' = st.started
    /\ UNCHANGED <<parse_pc, parsed, diffVars, mainVars>>

\* reading raises (an undecodable byte, an I/O error): return {}
ReadFails ==
    /\ parse_pc = "reading"
    /\ parse_pc' = "returned"
    /\ parsed' = EmptyDict
    /\ UNCHANGED <<data, data_section_started, line, diffVars, mainVars>>

\* the file is exhausted: return dict(data)
EndOfFile ==
    /\ parse_pc = "reading"
    /\ parse_pc' = "returned"
    /\ parsed' = data
    /\ UNCHANGED <<data, data_section_started, line, diffVars, mainVars>>

NextParse == OpenFile \/ OpenFails \/ ReadLine \/ ReadFails \/ EndOfFile

SpecParse == InitParse /\ [][NextParse]_vars

----------------------------------------------------------------------------
(* Properties of parse_frd_file                                             *)

\* a data row that reaches the column loop: more than 9 tokens, a digit
\* string first, a time that parses
QualifyingRow(parts) ==
    /\ ~StartsWithIX(parts)
    /\ Len(parts) > 9
    /\ IsDigit(parts[1])
    /\ FloatOk(parts[2])

ColTok(parts, label) == parts[COLUMNS_TO_EXTRACT[label] + 1]

RowKey(parts) == Round2(FloatVal(parts[2]))

Has(d, key, label) == key \in DOMAIN d /\ label \in DOMAIN d[key]

\* |value - (-999.0)| <= 0.1 for the exact value of a float
WithinTenth(value) ==
    /\ IsFinite(value)
    /\ DyCmp[DyMul[DblAbs[DyAdd[value, DyFromInt[999]]], DyFromInt[10]], DyFromInt[1]] <= 0

SentinelLike == [x \in Range(LiteralValue) |-> WithinTenth(x)]

NearSentinel(value) == Cached(SentinelLike, value, WithinTenth(value))

\* the labels whose column of the row parses to a number that is no sentinel
GoodLabels(parts) ==
    {l \in Params : /\ FloatOk(ColTok(parts, l))
                    /\ ~IsNaN(FloatVal(ColTok(parts, l)))
                    /\ ~NearSentinel(FloatVal(ColTok(parts, l)))}

\* this step read the qualifying row line' inside the data section
ReadRowStep ==
    /\ parse_pc = "reading" /\ parse_pc' = "reading"
    /\ data_section_started
    /\ QualifyingRow(line')

TableClean(d) == \A k \in DOMAIN d : \A l \in DOMAIN d[k] : ~NearSentinel(d[k][l])

\* C3: when a column of a qualifying row fails to parse, every other
\* parameter of the row that parses and is no sentinel is stored under the
\* row's quantized time, whether its column is before or after the failing one.
C3_OnlyFailingValueSkipped ==
    [][ (ReadRowStep /\ \E l \in Params : ~FloatOk(ColTok(line', l)))
        => \A l \in GoodLabels(line') :
              /\ Has(data', RowKey(line'), l)
              /\ data'[RowKey(line')][l] = FloatVal(ColTok(line', l)) ]_vars

\* the first half of C4 on its own: no table, while it is built or when it
\* is returned, holds a value within 0.1 of -999.0
NoSentinelStored == TableClean(data) /\ TableClean(parsed)

\* C4: the table never holds a value within 0.1 of -999.0, neither while it
\* is built nor when it is returned; and a row whose Pressure is the sentinel
\* and whose Temperature is valid leaves an entry at its time that has the
\* row's Temperature and no Pressure.
C4_SentinelNeverStored ==
    /\ []NoSentinelStored
    /\ [][ ( /\ ReadRowStep
             /\ FloatOk(ColTok(line', "P")) /\ NearSentinel(FloatVal(ColTok(line', "P")))
             /\ "T" \in GoodLabels(line') )
           => /\ Has(data', RowKey(line'), "T")
              /\ data'[RowKey(line')]["T"] = FloatVal(ColTok(line', "T"))
              /\ ~Has(data', RowKey(line'), "P") ]_vars

\* C5: when a row arrives at a key that an earlier row already filled, the
\* record under that key becomes exactly the row's own values, so nothing of
\* the earlier row remains, also for a parameter the row reports as sentinel.
C5_LastRowReplaces ==
    [][ ( /\ ReadRowStep
          /\ \A l \in Params : FloatOk(ColTok(line', l))
          /\ RowKey(line') \in DOMAIN data )
        => data'[RowKey(line')] =
              [l \in GoodLabels(line') |-> FloatVal(ColTok(line', l))] ]_vars

----------------------------------------------------------------------------
(* compare_data and format_output                                           *)

\* A difference and every statistic of a list of differences is a float,
\* computed in the order and with the roundings of numpy.

\* sorted(set) for floats that are not NaN
RECURSIVE Sorted(_)
Sorted(S) ==
    IF S = {} THEN <<>>
    ELSE LET m == CHOOSE x \in S : \A y \in S : DblLe(x, y)
         IN  <<m>> \o Sorted(S \ {m})

AllFinite(s) == \A i \in 1..Len(s) : IsFinite(s[i])

\* acc + a[i] + a[i + step] + ... as far as the index last
RECURSIVE SumFrom(_, _, _, _, _)
SumFrom(a, i, step, last, acc) ==
    IF i > last THEN acc ELSE SumFrom(a, i + step, step, last, DblAdd[acc, a[i]])

\* numpy's sum of 8 to 128 elements: eight running sums a[j], a[j + 8], ...
\* over the multiples of eight, added in pairs, and the rest added one
\* after the other
BlockSum(a) ==
    LET whole == Len(a) - (Len(a) % 8)
        Lane(j) == SumFrom(a, j + 8, 8, whole, a[j])
    IN  SumFrom(a, whole + 1, 1, Len(a),
            DblAdd[DblAdd[DblAdd[Lane(1), Lane(2)], DblAdd[Lane(3), Lane(4)]],
                   DblAdd[DblAdd[Lane(5), Lane(6)], DblAdd[Lane(7), Lane(8)]]])

\* np.add.reduce: the pairwise summation of numpy, started from 0; a list
\* of more than 128 elements is halved at a multiple of eight
RECURSIVE PairwiseSum(_)
PairwiseSum(a) ==
    IF Len(a) < 8 THEN SumFrom(a, 1, 1, Len(a), Zero)
    ELSE IF Len(a) <= 128 THEN BlockSum(a)
    ELSE LET n2 == (Len(a) \div 2) - ((Len(a) \div 2) % 8)
         IN  DblAdd[PairwiseSum(SubSeq(a, 1, n2)), PairwiseSum(SubSeq(a, n2 + 1, Len(a)))]

\* np.mean: the sum divided by the number of elements
SeqMean(s) == DblDivInt[PairwiseSum(s), Len(s)]

\* np.std with the given ddof: the square root of the sum of the squared
\* deviations (arr - arrmean) ** 2 from the mean, divided by max(n - ddof, 0)
SeqStd(s, ddof) ==
    LET mean == SeqMean(s)
        x == [i \in 1..Len(s) |-> DblSub[s[i], mean]]
    IN  DblSqrt[DblDivInt[PairwiseSum([i \in 1..Len(s) |-> DblMul[x[i], x[i]]]),
                          IF Len(s) > ddof THEN Len(s) - ddof ELSE 0]]

\* (within_threshold / total_values) * 100
PercentWithin(within, total) == DblMul[DblDivInt[DyFromInt[within], total], DyFromInt[100]]

\* np.min, np.max: NaN if an element is
SeqMin(s) ==
    IF \E i \in 1..Len(s) : IsNaN(s[i]) THEN NaN
    ELSE s[CHOOSE i \in 1..Len(s) : \A j \in 1..Len(s) : DblLe(s[i], s[j])]

SeqMax(s) ==
    IF \E i \in 1..Len(s) : IsNaN(s[i]) THEN NaN
    ELSE s[CHOOSE i \in 1..Len(s) : \A j \in 1..Len(s) : DblLe(s[j], s[i])]

\* np.sum(np.abs(diffs_array) <= threshold)
RECURSIVE CountWithin(_, _)
CountWithin(s, threshold) ==
    IF s = <<>> THEN 0
    ELSE (IF DblLe(DblAbs[Head(s)], threshold) THEN 1 ELSE 0)
            + CountWithin(Tail(s), threshold)

\* the loop over common_time_steps: val1 - val2 where both are present
RECURSIVE DiffsOver(_, _, _, _)
DiffsOver(steps, d1, d2, param) ==
    IF steps = <<>> THEN <<>>
    ELSE LET time_s == Head(steps)
             rest == DiffsOver(Tail(steps), d1, d2, param)
         IN  IF param \in DOMAIN d1[time_s] /\ param \in DOMAIN d2[time_s]
             THEN <<DblSub[d1[time_s][param], d2[time_s][param]]>> \o rest
             ELSE rest

\* sorted(set(data1.keys()) & set(data2.keys())): a NaN key of one table
\* equals no key of the other
common_time_steps(d1, d2) == Sorted({k \in DOMAIN d1 \cap DOMAIN d2 : ~IsNaN(k)})

\* the empty difference list: return 0, nan, nan, nan, nan, 0, 0.0, []
NoComparable ==
    [ total |-> 0, mean |-> NaN, min |-> NaN, max |-> NaN, std |-> NaN,
      within |-> 0, percent |-> Zero, diffs |-> <<>> ]

\* the statistics of a difference list
DiffStats(diffs, threshold) ==
    IF diffs = <<>> THEN NoComparable
    ELSE [ total |-> Len(diffs),
           mean |-> SeqMean(diffs),
           min |-> SeqMin(diffs),
           max |-> SeqMax(diffs),
           std |-> SeqStd(diffs, 0),
           within |-> CountWithin(diffs, threshold),
           percent |-> PercentWithin(CountWithin(diffs, threshold), Len(diffs)),
           diffs |-> diffs ]

\* compare_data that fills the statistics of an empty list with zeros
compare_data_ZeroFilled(d1, d2, param, threshold) ==
    LET diffs == DiffsOver(common_time_steps(d1, d2), d1, d2, param)
    IN  IF diffs = <<>>
        THEN [NoComparable EXCEPT !.mean = Zero, !.min = Zero,
                                  !.max = Zero, !.std = Zero]
        ELSE DiffStats(diffs, threshold)

compare_data(d1, d2, param, threshold) ==
    DiffStats(DiffsOver(common_time_steps(d1, d2), d1, d2, param), threshold)

label_map ==
    [P |-> "Pressure", T |-> "Temperature", RH |-> "Humidity",
     U |-> "U Winds", V |-> "V Winds"]

unit_map == [P |-> "mb", T |-> "C", RH |-> "%", U |-> "m/s", V |-> "m/s"]

\* format_output: which of the two texts is produced and the numbers put
\* into it (their rendering to 4 decimals is left out)
format_output(param, st, unit) ==
    IF st.total = 0
    THEN [ text |-> "No comparable data points found.",
           label |-> label_map[param], unit |-> unit ]
    ELSE [ text |-> "statistics", label |-> label_map[param],
           total |-> st.total, mean |-> st.mean, min |-> st.min, max |-> st.max,
           std |-> st.std, within |-> st.within, percent |-> st.percent ]

(* Tables handed to compare_data *)

\* the records of the tables, from the tokens of their readings
TableRecords ==
    { [l \in DOMAIN r |-> LiteralValue[r[l]]] :
        r \in { [P |-> Tok.p1000], [P |-> Tok.p999_5], [P |-> Tok.p999],
                [P |-> Tok.p1003, T |-> Tok.t20_1], [T |-> Tok.t19_9],
                [P |-> Tok.infinity, T |-> Tok.t20_3], [P |-> Tok.p1e308] } }

Tables ==
    UNION { [K -> TableRecords] :
              K \in SUBSET {LiteralValue[tok] : tok \in {Tok.t10_12, Tok.t10_25}} }

InitDiff ==
    /\ data1 \in Tables /\ data2 \in Tables /\ parameter \in {"P", "T", "V"}
    /\ stats = EmptyDict /\ output = EmptyDict /\ diff_pc = "call"
    /\ ParseIdle /\ MainIdle

CompareData ==
    /\ diff_pc = "call"
    /\ stats' = compare_data(data1, data2, parameter, THRESHOLDS[parameter])
    /\ diff_pc' = "compared"
    /\ UNCHANGED <<data1, data2, parameter, output, parseVars, mainVars>>

FormatOutput ==
    /\ diff_pc = "compared"
    /\ output' = format_output(parameter, stats, unit_map[parameter])
    /\ diff_pc' = "formatted"
    /\ UNCHANGED <<data1, data2, parameter, stats, parseVars, mainVars>>

NextDiff == CompareData \/ FormatOutput

SpecDiff == InitDiff /\ [][NextDiff]_vars

\* the common timestamps at which both tables hold the parameter
Comparable == {t \in DOMAIN data1 \cap DOMAIN data2 :
                 parameter \in DOMAIN data1[t] /\ parameter \in DOMAIN data2[t]}

Defined(st) == st.mean # NaN /\ st.min # NaN /\ st.max # NaN /\ st.std # NaN

\* what C8 says in both its wordings: the empty case gives total 0, within
\* 0, no differences and NaN statistics, reported as no data; otherwise
\* total is the number of comparable timestamps (> 0) and the report is the
\* statistics one, so the two cases never look alike
EmptyOrCounted ==
    /\ diff_pc \in {"compared", "formatted"} =>
          /\ Comparable = {} =>
                /\ stats.total = 0 /\ stats.within = 0 /\ stats.diffs = <<>>
                /\ stats.mean = NaN /\ stats.min = NaN
                /\ stats.max = NaN /\ stats.std = NaN
          /\ Comparable # {} =>
                /\ stats.total = Cardinality(Comparable) /\ Len(stats.diffs) = stats.total
                /\ stats.within <= stats.total
    /\ diff_pc = "formatted" =>
          (output.text = "No comparable data points found.") <=> (Comparable = {})

\* C8 as stated: with no common timestamp holding the parameter in both
\* tables the result is total 0, within 0, no differences and NaN
\* statistics; where differences exist, total > 0 and mean, min, max and
\* std are all defined, also when no difference is within the threshold.
C8_EmptyIsNoData ==
    /\ EmptyOrCounted
    /\ diff_pc \in {"compared", "formatted"} /\ Comparable # {} => Defined(stats)

\* C8 amended: as C8, with the statistics over existing differences defined
\* whenever every difference is finite.  A reading of inf, which float()
\* accepts, gives an infinite or NaN difference and with it a NaN std; the
\* result still has total > 0 and is reported as statistics.
C8_FiniteDiffsDefined ==
    /\ EmptyOrCounted
    /\ diff_pc \in {"compared", "formatted"} /\ Comparable # {} /\ AllFinite(stats.diffs)
          => Defined(stats)

\* C8 witness: the tables share a timestamp, but not the parameter there,
\* and the result is the no-data one.
C8_Witness ==
    /\ diff_pc = "formatted"
    /\ DOMAIN data1 \cap DOMAIN data2 # {} /\ Comparable = {}
    /\ stats.total = 0 /\ stats.mean = NaN
    /\ output.text = "No comparable data points found."

\* the other case of C8 is reached too: differences exist and none is within
C8_AllExceedReached ==
    diff_pc = "formatted" /\ stats.total = 2 /\ stats.within = 0 /\ Defined(stats)

----------------------------------------------------------------------------
(* File names, extract_timestamp, ordered dicts                             *)

HasAt(s, i, lit) ==
    /\ i >= 1 /\ i + Len(lit) - 1 <= Len(s)
    /\ \A j \in 1..Len(lit) : s[i + j - 1] = lit[j]

\* \d{n} at position i
DigitsAt(s, i, n) ==
    /\ i >= 1 /\ i + n - 1 <= Len(s)
    /\ \A j \in i..(i + n - 1) : s[j] \in Digits

StartsWith(s, prefix) == HasAt(s, 1, prefix)

EndsWith(s, suffix) == HasAt(s, Len(s) - Len(suffix) + 1, suffix)

\* re.search: the leftmost position of a match, 0 for no match
Leftmost(S) == IF S = {} THEN 0 ELSE CHOOSE i \in S : \A j \in S : i <= j

SufPQC == <<"_", "P", "Q", "C", ".", "f", "r", "d">>

ExtFrd == <<".", "f", "r", "d">>

\* re.search(r'D(\d{8}_\d{6})_PQC\.frd', filename)
avaps_match(filename) ==
    Leftmost({i \in 1..Len(filename) :
                /\ HasAt(filename, i, <<"D">>)
                /\ DigitsAt(filename, i + 1, 8)
                /\ HasAt(filename, i + 9, <<"_">>)
                /\ DigitsAt(filename, i + 10, 6)
                /\ HasAt(filename, i + 16, SufPQC)})

\* re.search(r'-\d{8}T(\d{6})', filename)
acs_match(filename) ==
    Leftmost({i \in 1..Len(filename) :
                /\ HasAt(filename, i, <<"-">>)
                /\ DigitsAt(filename, i + 1, 8)
                /\ HasAt(filename, i + 9, <<"T">>)
                /\ DigitsAt(filename, i + 10, 6)})

\* re.search(r'-(\d{8})H1', filename)
date_match(filename) ==
    Leftmost({i \in 1..Len(filename) :
                /\ HasAt(filename, i, <<"-">>)
                /\ DigitsAt(filename, i + 1, 8)
                /\ HasAt(filename, i + 9, <<"H", "1">>)})

\* None, which like the empty string is false in "if timestamp:"
None == <<>>

extract_timestamp(filename) ==
    LET a == avaps_match(filename)
        c == acs_match(filename)
        d == date_match(filename)
    IN  IF a # 0 THEN SubSeq(filename, a + 1, a + 15)
        ELSE IF c # 0 /\ d # 0
             THEN SubSeq(filename, d + 1, d + 8) \o <<"_">> \o SubSeq(filename, c + 10, c + 15)
             ELSE None

\* A dict in insertion order: a sequence of [key, value] with distinct keys.
DictHas(d, k) == \E i \in 1..Len(d) : d[i].key = k

DictGet(d, k) == d[CHOOSE i \in 1..Len(d) : d[i].key = k].value

\* d[k] = v: a key already present keeps its place
DictSet(d, k, v) ==
    IF DictHas(d, k)
    THEN [i \in 1..Len(d) |-> IF d[i].key = k THEN [key |-> k, value |-> v] ELSE d[i]]
    ELSE Append(d, [key |-> k, value |-> v])

\* os.path.join(directory_path, filename) and os.path.basename
DirectoryPath == <<"d", "i", "r">>

PathJoin(filename) == DirectoryPath \o <<"/">> \o filename

Basename(path) ==
    LET slashes == {i \in 1..Len(path) : path[i] = "/"}
        last == IF slashes = {} THEN 0 ELSE CHOOSE i \in slashes : \A j \in slashes : j <= i
    IN  SubSeq(path, last + 1, Len(path))

\* the characters of the file names in code-point order
CodePointOrder ==
    <<"-", ".", "/", "0", "1", "2", "3", "4", "5", "6", "7", "8", "9",
      "A", "B", "C", "D", "E", "F", "G", "H", "I", "J", "K", "L", "M", "N", "O", "P",
      "Q", "R", "S", "T", "U", "V", "W", "X", "Y", "Z", "_",
      "a", "b", "c", "d", "e", "f", "g", "h", "i", "j", "k", "l", "m", "n", "o", "p",
      "q", "r", "s", "t", "u", "v", "w", "x", "y", "z">>

Ord(c) == CHOOSE i \in 1..Len(CodePointOrder) : CodePointOrder[i] = c

\* a < b for strings
RECURSIVE StrLess(_, _)
StrLess(a, b) ==
    IF b = <<>> THEN FALSE
    ELSE IF a = <<>> THEN TRUE
    ELSE IF Head(a) = Head(b) THEN StrLess(Tail(a), Tail(b))
    ELSE Ord(Head(a)) < Ord(Head(b))

\* tuple(sorted((file1_path, file2_path)))
PairKey(file1_path, file2_path) ==
    IF StrLess(file2_path, file1_path)
    THEN <<file2_path, file1_path>>
    ELSE <<file1_path, file2_path>>

----------------------------------------------------------------------------
(* The directory: file names and what each file holds                        *)

MaxFiles == 4

\* the dates and times of day of the file names
Stamp ==
    [ date1 |-> <<"2", "0", "2", "3", "0", "1", "0", "1">>,
      date2 |-> <<"2", "0", "2", "3", "0", "1", "0", "2">>,
      time0 |-> <<"1", "2", "0", "0", "0", "0">>,
      time1 |-> <<"1", "2", "0", "0", "0", "1">>,
      time2 |-> <<"1", "2", "0", "0", "0", "2">>,
      time3 |-> <<"1", "2", "0", "0", "0", "3">> ]

\* D<date>_<time>_PQC.frd
AvapsName(date, time) == <<"D">> \o date \o <<"_">> \o time \o SufPQC

\* <prefix>_Melissa-<date>H1-15-<date>T<time>-2QC.frd
AcsName(prefix, date, time) ==
    prefix \o <<"_", "M", "e", "l", "i", "s", "s", "a", "-">> \o date
           \o <<"H", "1", "-", "1", "5", "-">> \o date \o <<"T">> \o time
           \o <<"-", "2", "Q", "C">> \o ExtFrd

\* the files that a directory may list
Name ==
    [ A0 |-> AvapsName(Stamp.date1, Stamp.time0),
      A1 |-> AvapsName(Stamp.date1, Stamp.time1),
      A2 |-> AvapsName(Stamp.date1, Stamp.time2),
      B1 |-> AcsName(<<"H", "X">>, Stamp.date1, Stamp.time1),
      B1Again |-> AcsName(<<"H", "Y">>, Stamp.date1, Stamp.time1),
      B3 |-> AcsName(<<"H", "X">>, Stamp.date1, Stamp.time3),
      BOtherDay |-> AcsName(<<"H", "X">>, Stamp.date2, Stamp.time1),
      \* XD20230101_120002_PQC.frd
      XA |-> <<"X">> \o AvapsName(Stamp.date1, Stamp.time2),
      Readme |-> <<"r", "e", "a", "d", "m", "e">> \o ExtFrd,
      Notes |-> <<"n", "o", "t", "e", "s", ".", "t", "x", "t">> ]

FileNames == {Name[f] : f \in DOMAIN Name}

File(text) == [readable |-> TRUE, lines |-> text]

\* the file behind each path
FileAt(path) ==
    LET name == Basename(path)
    IN  IF name \in {Name.A0, Name.A1} THEN File(TextA)
        ELSE IF name = Name.A2 THEN File(TextA2)
        ELSE IF name \in {Name.B1, Name.BOtherDay} THEN File(TextB)
        ELSE IF name = Name.B3 THEN File(TextB3)
        ELSE IF name = Name.B1Again THEN [readable |-> FALSE, lines |-> <<>>]
        ELSE File(TextNoHeader)

----------------------------------------------------------------------------
(* main                                                                      *)

\* "Write(f, e)": print_to_file of one block of the report
Write(f, entry) == Append(f, entry)

UnderscoreAt(ts) == CHOOSE i \in 1..Len(ts) : ts[i] = "_"

\* ts.split('_') of a timestamp with one underscore
DatePart(ts) == SubSeq(ts, 1, UnderscoreAt(ts) - 1)

TimePart(ts) == SubSeq(ts, UnderscoreAt(ts) + 1, Len(ts))

\* the AVAPS timestamps of the same date within +/- 1 of the ACS time, both
\* times read as integers, in the order of avaps_files
CandidatesFor(acs_ts, avaps) ==
    LET acs_time_in_seconds == DigitsToInt(TimePart(acs_ts))
        Near(avaps_ts) ==
            /\ DatePart(avaps_ts) = DatePart(acs_ts)
            /\ Abs(DigitsToInt(TimePart(avaps_ts)) - acs_time_in_seconds) <= 1
    IN  SelectSeq([i \in 1..Len(avaps) |-> avaps[i].key], Near)

\* the choice that takes the first candidate whether or not one is exact
SelectAvaps_FirstOnly(acs_ts, avaps_ts_list) == avaps_ts_list[1]

\* the exact match if the list has one, else the first of the list
SelectAvaps(acs_ts, avaps_ts_list) ==
    IF \E i \in 1..Len(avaps_ts_list) : avaps_ts_list[i] = acs_ts
    THEN acs_ts
    ELSE avaps_ts_list[1]

\* compared_pairs.add(pair_key) that is lost
MarkCompared_Forget(compared, pair_key) == compared

\* compared_pairs.add(pair_key)
MarkCompared(compared, pair_key) == compared \cup {pair_key}

\* the per-parameter loop of one pair, from the i-th parameter on: the
\* formatted results and the extended global_diffs
RECURSIVE CompareParams(_, _, _, _, _)
CompareParams(d1, d2, i, results, gdiffs) ==
    IF i > Len(ParamOrder) THEN [results |-> results, global_diffs |-> gdiffs]
    ELSE LET param == ParamOrder[i]
             st == compare_data(d1, d2, param, THRESHOLDS[param])
         IN  CompareParams(d1, d2, i + 1,
                 Append(results, format_output(param, st, unit_map[param])),
                 [gdiffs EXCEPT ![param] = gdiffs[param] \o st.diffs])

\* the global statistics with the sample standard deviation
GlobalStats_SampleStd(diffs, threshold) ==
    [ total |-> Len(diffs),
      mean |-> SeqMean(diffs),
      min |-> SeqMin(diffs),
      max |-> SeqMax(diffs),
      std |-> SeqStd(diffs, 1),
      within |-> CountWithin(diffs, threshold),
      percent |-> PercentWithin(CountWithin(diffs, threshold), Len(diffs)) ]

\* the statistics of the global summary over a non-empty list
GlobalStats(diffs, threshold) ==
    [ total |-> Len(diffs),
      mean |-> SeqMean(diffs),
      min |-> SeqMin(diffs),
      max |-> SeqMax(diffs),
      std |-> SeqStd(diffs, 0),
      within |-> CountWithin(diffs, threshold),
      percent |-> PercentWithin(CountWithin(diffs, threshold), Len(diffs)) ]

\* the loop of the global summary from the i-th parameter on
RECURSIVE WriteGlobal(_, _, _)
WriteGlobal(f, gdiffs, i) ==
    IF i > Len(ParamOrder) THEN f
    ELSE LET param == ParamOrder[i]
             diffs == gdiffs[param]
         IN  WriteGlobal(
                 IF diffs = <<>>
                 THEN Write(f, [kind |-> "global_no_data", param |-> param])
                 ELSE Write(f, [kind |-> "global_stats", param |-> param,
                                label |-> label_map[param],
                                stats |-> GlobalStats(diffs, THRESHOLDS[param])]),
                 gdiffs, i + 1)

InitMain ==
    /\ pc = "start"
    /\ directory \in {S \in SUBSET FileNames : Cardinality(S) <= MaxFiles}
    /\ listed = {}
    /\ avaps_files = <<>> /\ acs_files = <<>> /\ acs_timestamp_mapping = <<>>
    /\ next_item = 1 /\ compared_pairs = {}
    /\ global_diffs = [p \in Params |-> <<>>]
    /\ file_count = 0 /\ outfile = <<>>
    /\ ParseIdle /\ DiffIdle

\* os.path.isdir fails (a directory that does not exist lists nothing):
\* the error is printed and main returns
DirectoryNotFound ==
    /\ pc = "start" /\ directory = {}
    /\ pc' = "exit"
    /\ UNCHANGED <<directory, listed, avaps_files, acs_files, acs_timestamp_mapping,
                   next_item, compared_pairs, global_diffs, file_count, outfile,
                   parseVars, diffVars>>

\* the directory exists: the report file is opened
OpenReport ==
    /\ pc = "start"
    /\ pc' = "collect"
    /\ UNCHANGED <<directory, listed, avaps_files, acs_files, acs_timestamp_mapping,
                   next_item, compared_pairs, global_diffs, file_count, outfile,
                   parseVars, diffVars>>

\* one iteration of "for filename in os.listdir(directory_path)", which
\* lists in no particular order
CollectFile ==
    /\ pc = "collect"
    /\ \E filename \in directory \ listed :
          LET file_path == PathJoin(filename)
              timestamp == extract_timestamp(filename)
              keep == EndsWith(filename, ExtFrd) /\ timestamp # None
          IN  /\ listed' = listed \cup {filename}
              /\ avaps_files' =
                    IF keep /\ StartsWith(filename, <<"D">>)
                    THEN DictSet(avaps_files, timestamp, file_path)
                    ELSE avaps_files
              /\ acs_files' =
                    IF keep /\ ~StartsWith(filename, <<"D">>)
                    THEN DictSet(acs_files, timestamp, file_path)
                    ELSE acs_files
    /\ UNCHANGED <<pc, directory, acs_timestamp_mapping, next_item, compared_pairs,
                   global_diffs, file_count, outfile, parseVars, diffVars>>

\* the loop that fills acs_timestamp_mapping, after the listing is exhausted;
\* every key of acs_files is <8 digits>_<6 digits>, so split and int succeed
BuildMapping ==
    /\ pc = "collect" /\ listed = directory
    /\ acs_timestamp_mapping' =
          [i \in 1..Len(acs_files) |->
              [key |-> acs_files[i].key,
               value |-> CandidatesFor(acs_files[i].key, avaps_files)]]
    /\ pc' = "pairs"
    /\ UNCHANGED <<directory, listed, avaps_files, acs_files, next_item, compared_pairs,
                   global_diffs, file_count, outfile, parseVars, diffVars>>

\* the results of a pair written and its differences added to global_diffs
WriteResults(announced, file1_path, file2_path, done) ==
    /\ global_diffs' = done.global_diffs
    /\ outfile' = Write(announced,
                        [kind |-> "results", file1 |-> Basename(file1_path),
                         file2 |-> Basename(file2_path), results |-> done.results])

\* a new pair with its two tables: aborted if a table is empty, else compared
LoadAndCompare(announced, file1_path, file2_path, d1, d2) ==
    IF d1 = EmptyDict \/ d2 = EmptyDict
    THEN /\ outfile' = Write(announced, [kind |-> "aborted"])
         /\ UNCHANGED <<global_diffs, file_count>>
    ELSE /\ file_count' = file_count + 1
         /\ WriteResults(announced, file1_path, file2_path,
                         CompareParams(d1, d2, 1, <<>>, global_diffs))

\* the body of the loop for a selected pair of files
ComparePair(acs_ts, file1_path, file2_path) ==
    IF PairKey(file1_path, file2_path) \in compared_pairs
    THEN UNCHANGED <<compared_pairs, global_diffs, file_count, outfile>>
    ELSE /\ compared_pairs' = MarkCompared(compared_pairs, PairKey(file1_path, file2_path))
         /\ LoadAndCompare(
                Write(outfile, [kind |-> "comparing", acs_ts |-> acs_ts,
                                file1 |-> Basename(file1_path),
                                file2 |-> Basename(file2_path)]),
                file1_path, file2_path,
                parse_frd_file(FileAt(file1_path)), parse_frd_file(FileAt(file2_path)))

\* one iteration of "for acs_ts, avaps_ts_list in acs_timestamp_mapping.items()"
ProcessItem ==
    /\ pc = "pairs" /\ next_item <= Len(acs_timestamp_mapping)
    /\ next_item' = next_item + 1
    /\ LET acs_ts == acs_timestamp_mapping[next_item].key
           avaps_ts_list == acs_timestamp_mapping[next_item].value
       IN  IF ~DictHas(acs_files, acs_ts)
           THEN UNCHANGED <<compared_pairs, global_diffs, file_count, outfile>>
           ELSE IF avaps_ts_list = <<>>
           THEN /\ outfile' = Write(outfile,
                        [kind |-> "warning_no_candidates",
                         file |-> Basename(DictGet(acs_files, acs_ts)), acs_ts |-> acs_ts])
                /\ UNCHANGED <<compared_pairs, global_diffs, file_count>>
           ELSE LET avaps_ts_to_compare == SelectAvaps(acs_ts, avaps_ts_list)
                IN  IF ~DictHas(avaps_files, avaps_ts_to_compare)
                    THEN /\ outfile' = Write(outfile,
                                 [kind |-> "warning_no_avaps", acs_ts |-> acs_ts])
                         /\ UNCHANGED <<compared_pairs, global_diffs, file_count>>
                    ELSE ComparePair(acs_ts, DictGet(avaps_files, avaps_ts_to_compare),
                                     DictGet(acs_files, acs_ts))
    /\ UNCHANGED <<pc, directory, listed, avaps_files, acs_files, acs_timestamp_mapping,
                   parseVars, diffVars>>

\* after the loop: "No matching file pairs found", or the global summary
WriteSummary ==
    /\ pc = "pairs" /\ next_item > Len(acs_timestamp_mapping)
    /\ outfile' =
          IF compared_pairs = {}
          THEN Write(outfile, [kind |-> "no_pairs"])
          ELSE WriteGlobal(
                   Write(outfile, [kind |-> "global_header", file_count |-> file_count]),
                   global_diffs, 1)
    /\ pc' = "done"
    /\ UNCHANGED <<directory, listed, avaps_files, acs_files, acs_timestamp_mapping,
                   next_item, compared_pairs, global_diffs, file_count,
                   parseVars, diffVars>>

Next ==
    \/ DirectoryNotFound \/ OpenReport \/ CollectFile \/ BuildMapping
    \/ ProcessItem \/ WriteSummary

Spec == InitMain /\ [][Next]_vars

----------------------------------------------------------------------------
(* Properties of a batch run                                                *)

\* the places of the report where a pair is announced for comparison
ComparingAt == {i \in 1..Len(outfile) : outfile[i].kind = "comparing"}

\* what parse_frd_file returns for each file of the directory
ParsedFiles == [name \in FileNames |-> parse_frd_file(FileAt(PathJoin(name)))]

TableOf(basename) == ParsedFiles[basename]

\* the announced pair at i was compared: both of its tables are non-empty
\* and its per-parameter results follow
Successful(i) ==
    /\ TableOf(outfile[i].file1) # EmptyDict
    /\ TableOf(outfile[i].file2) # EmptyDict
    /\ i < Len(outfile) /\ outfile[i + 1].kind = "results"

GlobalWritten == \E i \in 1..Len(outfile) : outfile[i].kind = "global_header"

\* C1: the global-summary section is written only if some pair was
\* successfully compared.
C1_GlobalOnlyAfterSuccess ==
    GlobalWritten => \E i \in ComparingAt : Successful(i)

\* the unordered pair of paths announced at i
Unordered(i) == {PathJoin(outfile[i].file1), PathJoin(outfile[i].file2)}

\* C2: no unordered pair of file paths is compared twice, and the compared
\* set holds exactly the keys of the pairs compared so far, so a key that is
\* in the set is never compared again.
C2_PairKeyComparedOnce ==
    /\ \A i, j \in ComparingAt : i # j => Unordered(i) # Unordered(j)
    /\ {{k[1], k[2]} : k \in compared_pairs} = {Unordered(i) : i \in ComparingAt}
    /\ Cardinality(compared_pairs) = Cardinality(ComparingAt)

\* C2 witness: a finished run that compared two pairs sharing their AVAPS file.
C2_Witness ==
    /\ pc = "done" /\ Cardinality(compared_pairs) = 2
    /\ \E i, j \in ComparingAt :
          i # j /\ outfile[i].file1 = outfile[j].file1 /\ outfile[i].file2 # outfile[j].file2

\* the candidates of an ACS timestamp, read off the two timestamps' digits:
\* the same eight date digits and six time digits that differ by at most 1
\* as integers
IsCandidate(avaps_ts, acs_ts) ==
    /\ SubSeq(avaps_ts, 1, 8) = SubSeq(acs_ts, 1, 8)
    /\ DigitsToInt(SubSeq(avaps_ts, 10, 15)) - DigitsToInt(SubSeq(acs_ts, 10, 15))
          \in {-1, 0, 1}

CandidatePlaces(acs_ts) ==
    {i \in 1..Len(avaps_files) : IsCandidate(avaps_files[i].key, acs_ts)}

\* the place in avaps_files of the file announced as File 1 at i
SelectedPlace(i) ==
    CHOOSE n \in 1..Len(avaps_files) : avaps_files[n].value = PathJoin(outfile[i].file1)

\* C7: the AVAPS file compared with an ACS timestamp is a candidate of it;
\* it is the one with the equal timestamp if a candidate has it, and the
\* first candidate in iteration order otherwise; and every ACS timestamp
\* already processed that has candidates was given one.
C7_ExactElseFirst ==
    /\ \A i \in ComparingAt :
          LET acs_ts == outfile[i].acs_ts
              n == SelectedPlace(i)
              C == CandidatePlaces(acs_ts)
          IN  /\ \E m \in 1..Len(avaps_files) : avaps_files[m].value = PathJoin(outfile[i].file1)
              /\ n \in C
              /\ (\E m \in C : avaps_files[m].key = acs_ts) => avaps_files[n].key = acs_ts
              /\ (\A m \in C : avaps_files[m].key # acs_ts) => \A m \in C : n <= m
    /\ pc \in {"pairs", "done"} =>
          \A m \in 1..(next_item - 1) :
              CandidatePlaces(acs_timestamp_mapping[m].key) # {}
                  => \E i \in ComparingAt : outfile[i].acs_ts = acs_timestamp_mapping[m].key

\* C7 witness: an exact match was compared although another candidate
\* comes first in iteration order.
C7_Witness ==
    \E i \in ComparingAt :
        /\ avaps_files[SelectedPlace(i)].key = outfile[i].acs_ts
        /\ \E m \in CandidatePlaces(outfile[i].acs_ts) : m < SelectedPlace(i)

\* the files of the directory that the collection classifies as ACS
ClassifiedAcs ==
    {f \in directory :
        EndsWith(f, ExtFrd) /\ extract_timestamp(f) # None /\ ~StartsWith(f, <<"D">>)}

\* C9: at the end of a run every file classified as ACS with a timestamp is
\* in exactly one compared pair or is named by an unmatched warning.
C9_NoAcsFileDropped ==
    pc = "done" =>
        \A f \in ClassifiedAcs :
            \/ Cardinality({i \in ComparingAt : outfile[i].file2 = f}) = 1
            \/ \E i \in 1..Len(outfile) :
                   outfile[i].kind = "warning_no_candidates" /\ outfile[i].file = f

\* C10: a file is in the AVAPS collection exactly when the AVAPS pattern
\* gave its timestamp and in the ACS collection exactly when the ACS pattern
\* did.
C10_TagAgreesWithPattern ==
    /\ \A i \in 1..Len(avaps_files) : avaps_match(Basename(avaps_files[i].value)) # 0
    /\ \A i \in 1..Len(acs_files) : avaps_match(Basename(acs_files[i].value)) = 0

\* the differences that the pair announced at i added to global_diffs
PairDiffs(i, param) ==
    IF outfile[i].kind = "comparing" /\ Successful(i)
    THEN compare_data(TableOf(outfile[i].file1), TableOf(outfile[i].file2),
                      param, THRESHOLDS[param]).diffs
    ELSE <<>>

\* the differences of the successfully compared pairs, last pair first
RECURSIVE DiffsLastFirst(_, _)
DiffsLastFirst(i, param) ==
    IF i = 0 THEN <<>> ELSE PairDiffs(i, param) \o DiffsLastFirst(i - 1, param)

\* the same in the order in which the pairs were processed
RECURSIVE DiffsInOrder(_, _)
DiffsInOrder(i, param) ==
    IF i = 0 THEN <<>> ELSE DiffsInOrder(i - 1, param) \o PairDiffs(i, param)

GlobalAt(param) ==
    {i \in 1..Len(outfile) :
        outfile[i].kind \in {"global_no_data", "global_stats"} /\ outfile[i].param = param}

\* the seven statistics of a compare_data result
Seven(st) ==
    [ total |-> st.total, mean |-> st.mean, min |-> st.min, max |-> st.max,
      std |-> st.std, within |-> st.within, percent |-> st.percent ]

\* the statistics that do not depend on the order of the differences
OrderFree(st) ==
    [ total |-> st.total, min |-> st.min, max |-> st.max,
      within |-> st.within, percent |-> st.percent ]

\* the global entry at i is the statistics of the differences all
GlobalIs(i, all, threshold) ==
    IF all = <<>> THEN outfile[i].kind = "global_no_data"
    ELSE /\ outfile[i].kind = "global_stats"
         /\ outfile[i].stats = Seven(DiffStats(all, threshold))

\* C6 as stated: the global summary of each parameter is what the statistics
\* of compare_data give over the differences of the successfully compared
\* pairs taken together, in whatever order the pairs were processed (here:
\* the reverse of it); pairs that were aborted add nothing.
C6_GlobalEqualsConcatenation ==
    (pc = "done" /\ GlobalWritten) =>
        \A param \in Params :
            /\ Cardinality(GlobalAt(param)) = 1
            /\ \A i \in GlobalAt(param) :
                  GlobalIs(i, DiffsLastFirst(Len(outfile), param), THRESHOLDS[param])

\* the global entry at i agrees with the statistics of the differences all
\* in what does not depend on their order
GlobalAgrees(i, all, threshold) ==
    all # <<>> => OrderFree(outfile[i].stats) = OrderFree(DiffStats(all, threshold))

\* C6 amended: the global summary of each parameter is what the statistics
\* of compare_data give over the differences of the successfully compared
\* pairs, concatenated in the order in which the pairs were processed; the
\* total, the minimum, the maximum, the count and the percentage within the
\* threshold are the same for the pairs taken in the reverse order, while
\* the mean and the standard deviation are sums of binary64 numbers and can
\* differ in their last bits; pairs that were aborted add nothing.
C6_GlobalInProcessingOrder ==
    (pc = "done" /\ GlobalWritten) =>
        \A param \in Params :
            /\ Cardinality(GlobalAt(param)) = 1
            /\ \A i \in GlobalAt(param) :
                  /\ GlobalIs(i, DiffsInOrder(Len(outfile), param), THRESHOLDS[param])
                  /\ GlobalAgrees(i, DiffsLastFirst(Len(outfile), param), THRESHOLDS[param])

\* C6 witness: a finished run with two compared pairs and an aborted one,
\* whose summary of the U winds covers the three differences of the two
\* compared pairs and has a mean that is not the mean of the same
\* differences with the pairs taken in the reverse order.
C6_Witness ==
    /\ pc = "done"
    /\ Cardinality({i \in ComparingAt : Successful(i)}) = 2
    /\ \E i \in 1..Len(outfile) : outfile[i].kind = "aborted"
    /\ \E i \in GlobalAt("U") :
          /\ outfile[i].kind = "global_stats" /\ outfile[i].stats.total = 3
          /\ outfile[i].stats.mean # SeqMean(DiffsLastFirst(Len(outfile), "U"))

====
